---- MODULE Spec2Model ----
(***************************************************************************)
(* A model of the schema extraction engine of ts-document,                 *)
(* src/src/generate.ts: declaration discovery and ordering, tag parsing,   *)
(* property schemas, nested type resolution and type text linkification.   *)
(*                                                                         *)
(* The analysed project (ts-morph's view of the source files) is input:    *)
(* `types` and `decls` describe its types and declaration nodes, `file`    *)
(* the entry source file and `config` the GenerateConfig.  One call of     *)
(* generate runs as a sequence of steps; the resolver's recursion is an    *)
(* explicit stack of frames.  Text is a sequence of tokens, a maximal run  *)
(* of word characters being one token.                                     *)
(***************************************************************************)
EXTENDS Naturals, Sequences, FiniteSets

VARIABLES
  types,               \* input: type id -> the type as the type checker gives it
  decls,               \* input: declaration id -> the declaration node
  file,                \* input: the entry source file's top-level declarations
  config,              \* input: the GenerateConfig of every call
  callsLeft,           \* input: how many more times the caller calls generate
  projectFiles,        \* internalProject: whether the entry file has been added
  dummyFile,           \* dummyProject: the text of ./dummy.ts
  pc,                  \* position in the current call
  queue,               \* the sorted declarations not yet processed
  cur,                 \* the declaration being built
  stack,               \* dumpNestedTypes' frames, innermost first
  schemaList,          \* generateSchema's schemaList
  schemaMap,           \* generateSchema's schemaMap
  nestedTypeList,      \* generateSchema's nestedTypeList
  parsedNestedTypeSet, \* generateSchema's parsedNestedTypeSet, in insertion order
  results,             \* what the finished calls returned
  recorded,            \* history: the type of each nestedTypeList entry
  walks                \* history: the declarations dumpNestedTypes recursed into

vars == <<types, decls, file, config, callsLeft, projectFiles, dummyFile, pc,
          queue, cur, stack, schemaList, schemaMap, nestedTypeList,
          parsedNestedTypeSet, results, recorded, walks>>

inputs == <<types, decls, file, config>>

-----------------------------------------------------------------------------
(* Values *)

\* JavaScript's undefined, for a title, a link or a name
Undefined == ""

NoSymbol == [name |-> Undefined, decl |-> 0]

NoCur == [title |-> Undefined, tags |-> <<>>, shape |-> "none",
          members |-> <<>>, data |-> <<>>, returns |-> Undefined]

KEYWORDS_TO_SKIP == {"Omit"}

TAG_NAMES_FOR_DESCRIPTION == <<"zh", "en">>

Range(s) == {s[i] : i \in 1..Len(s)}

\* Array.prototype.find's index: the first i with s[i] \in S, or 0
RECURSIVE FirstIn(_, _, _)
FirstIn(s, S, i) ==
  IF i > Len(s) THEN 0
  ELSE IF s[i] \in S THEN i
  ELSE FirstIn(s, S, i + 1)

-----------------------------------------------------------------------------
(* extractFromPropertyText: propertyRegex on a token sequence *)

IsWord(tok) == tok \notin {" ", "?", ":", ";", "|", "&", "(", ")", "'", "-", "<", ">", "{", "}", ","}

RECURSIVE SkipSpaces(_, _)
SkipSpaces(text, i) ==
  IF i <= Len(text) /\ text[i] = " " THEN SkipSpaces(text, i + 1) ELSE i

\* the position of the ':' when (\w+)\s{0,}([?]?)\s{0,}: matches with the word at i, else 0
ColonAfterWord(text, i) ==
  LET a == SkipSpaces(text, i + 1)
      b == IF a <= Len(text) /\ text[a] = "?" THEN a + 1 ELSE a
      c == SkipSpaces(text, b)
  IN IF c <= Len(text) /\ text[c] = ":" THEN c ELSE 0

\* exec tries the start positions left to right
RECURSIVE MatchFrom(_, _)
MatchFrom(text, i) ==
  IF i > Len(text) THEN 0
  ELSE IF IsWord(text[i]) /\ ColonAfterWord(text, i) # 0 THEN i
  ELSE MatchFrom(text, i + 1)

\* (.*?);?$ : the rest, less one closing ';'
StripSemicolon(rest) ==
  IF Len(rest) > 0 /\ rest[Len(rest)] = ";" THEN SubSeq(rest, 1, Len(rest) - 1) ELSE rest

extractFromPropertyText(text) ==
  LET i == MatchFrom(text, 1)
      c == ColonAfterWord(text, i)
  IN IF i = 0 THEN [ok |-> FALSE, name |-> Undefined, isOptional |-> FALSE, type |-> <<>>]
     ELSE [ok |-> TRUE,
           name |-> text[i],
           isOptional |-> "?" \in Range(SubSeq(text, i + 1, c - 1)),
           type |-> StripSemicolon(SubSeq(text, c + 1, Len(text)))]

-----------------------------------------------------------------------------
(* Tag parsers *)

\* the loop of getDeclarationTags over rawTags[i..]: every 'title' tag assigns title
RECURSIVE TitleLoop(_, _, _)
TitleLoop(rawTags, i, title) ==
  IF i > Len(rawTags) THEN title
  ELSE TitleLoop(rawTags, i + 1,
                 IF rawTags[i].name = "title" THEN rawTags[i].value ELSE title)

getDeclarationTags(d) ==
  [title |-> TitleLoop(d.rawTags, 1, Undefined), tags |-> d.rawTags]

\* the forEach over TAG_NAMES_FOR_DESCRIPTION, from the i-th name on
RECURSIVE ExtendTags(_, _, _)
ExtendTags(tags, comment, i) ==
  IF i > Len(TAG_NAMES_FOR_DESCRIPTION) THEN tags
  ELSE LET n == TAG_NAMES_FOR_DESCRIPTION[i]
       IN ExtendTags(IF \E k \in 1..Len(tags) : tags[k].name = n
                     THEN tags
                     ELSE Append(tags, [name |-> n, value |-> comment]),
                     comment, i + 1)

getSymbolTags(d, strictComment) ==
  IF ~strictComment /\ d.comment # Undefined
  THEN ExtendTags(d.jsDocTags, d.comment, 1)
  ELSE d.jsDocTags

HasDescription(tags) ==
  \E k \in 1..Len(tags) :
    tags[k].name # Undefined /\ tags[k].name \in Range(TAG_NAMES_FOR_DESCRIPTION)

-----------------------------------------------------------------------------
(* Types, symbols and declarations *)

getSymbolByType(t) == IF t.aliasSymbol # NoSymbol THEN t.aliasSymbol ELSE t.symbol

\* String.prototype.includes('/node_modules/') on an absolute path, by segments
InNodeModules(path) == \E i \in 1..(Len(path) - 1) : path[i] = "node_modules"

\* the set as JavaScript keeps it: insertion order, no element twice
SetAdd(set, x) == IF x \in Range(set) THEN set ELSE Append(set, x)

\* hasJSDocTitle: [hit, set] for declaration id d (0: none) in world D
HasJSDocTitle(D, d, set) ==
  IF d # 0 /\ D[d].jsDocable /\ getDeclarationTags(D[d]).title # Undefined
  THEN [hit |-> TRUE, set |-> SetAdd(set, D[d].type)]
  ELSE [hit |-> FALSE, set |-> set]

isAliasDeclaration(D, t) ==
  /\ t.aliasSymbol # NoSymbol
  /\ t.aliasSymbol.decl # 0
  /\ D[t.aliasSymbol.decl].kind = "TypeAliasDeclaration"

IsKindOfTarget(D, t) ==
  \/ t.flag \in {"interface", "enum", "union", "intersection"}
  \/ isAliasDeclaration(D, t)

\* isTarget without the test of the visited set at its head
isTargetRevisiting(T, D, ty, set) ==
  LET d == getSymbolByType(T[ty]).decl
      h == HasJSDocTitle(D, d, set)
  IN IF h.hit THEN [ok |-> FALSE, set |-> h.set]
     ELSE IF d # 0 /\ InNodeModules(D[d].path) THEN [ok |-> FALSE, set |-> set]
     ELSE [ok |-> IsKindOfTarget(D, T[ty]), set |-> set]

\* isTarget: [ok, set] for type id ty
isTarget(T, D, ty, set) ==
  IF ty \in Range(set) THEN [ok |-> FALSE, set |-> set]
  ELSE LET d == getSymbolByType(T[ty]).decl
           h == HasJSDocTitle(D, d, set)
       IN IF h.hit THEN [ok |-> FALSE, set |-> h.set]
          ELSE IF d # 0 /\ InNodeModules(D[d].path) THEN [ok |-> FALSE, set |-> set]
          ELSE [ok |-> IsKindOfTarget(D, T[ty]), set |-> set]

-----------------------------------------------------------------------------
(* getDisplayTypeWithLink *)

\* util's toSingleLine: a line break becomes a space (util's escape, applied
\* before it, is taken to leave identifiers, blanks and line breaks as they are)
toSingleLine(text) == [i \in 1..Len(text) |-> IF text[i] = "\n" THEN " " ELSE text[i]]

\* the caller's linkFormatter, one of two: "hash" links every type by its name,
\* "titled" links only a type handed over with its JSDoc title
linkFormatter(which, typeName, jsDocTitle, fullPath) ==
  IF which = "hash" THEN "#" \o typeName
  ELSE IF jsDocTitle # Undefined THEN jsDocTitle \o "#" \o typeName
  ELSE Undefined

\* the link the k-th type of the set gives identifier `name`, or Undefined
LinkOfParsedType(T, D, which, name, list, ty) ==
  LET sym == getSymbolByType(T[ty])
      d == sym.decl
      title == IF d # 0 /\ D[d].jsDocable THEN getDeclarationTags(D[d]).title ELSE Undefined
  IN IF sym.name = Undefined \/ sym.name # name THEN Undefined
     ELSE IF \E k \in 1..Len(list) : list[k].title = name
          THEN linkFormatter(which, name, Undefined, <<>>)
     ELSE IF title # Undefined
          THEN linkFormatter(which, name, title, D[d].path)
     ELSE Undefined

\* the for loop over parsedNestedTypeSet, from its k-th element on
RECURSIVE LinkOfIdentifier(_, _, _, _, _, _, _)
LinkOfIdentifier(T, D, which, name, list, set, k) ==
  IF k > Len(set) THEN Undefined
  ELSE LET link == LinkOfParsedType(T, D, which, name, list, set[k])
       IN IF link # Undefined THEN link
          ELSE LinkOfIdentifier(T, D, which, name, list, set, k + 1)

getDisplayTypeWithLink(T, D, which, originTypeText, list, set) ==
  LET text == toSingleLine(originTypeText)
  IN [i \in 1..Len(text) |->
        LET link == IF IsWord(text[i])
                    THEN LinkOfIdentifier(T, D, which, text[i], list, set, 1)
                    ELSE Undefined
        IN IF link # Undefined
           THEN "[" \o text[i] \o "](" \o link \o ")"
           ELSE text[i]]

-----------------------------------------------------------------------------
(* generateSchema's sort and assembly *)

\* Array.prototype.sort with the comparator a.line - b.line, which is stable:
\* d goes after every element whose line is not greater
RECURSIVE InsertByLine(_, _, _)
InsertByLine(D, sorted, d) ==
  IF sorted = <<>> THEN <<d>>
  ELSE IF D[Head(sorted)].line <= D[d].line
       THEN <<Head(sorted)>> \o InsertByLine(D, Tail(sorted), d)
       ELSE <<d>> \o sorted

\* the declarations left in the order they are met in
EncounterOrder(D, s) == s

RECURSIVE SortByLine(_, _)
SortByLine(D, s) ==
  IF s = <<>> THEN <<>>
  ELSE InsertByLine(D, SortByLine(D, SubSeq(s, 1, Len(s) - 1)), s[Len(s)])

SortedDeclarations(D, f) == SortByLine(D, f.interfaces \o f.typeAliases \o f.functions)

\* the caller's propertySorter, one of two: none, or required members first (stable)
SortMembers(which, s) ==
  IF which = "none" THEN s
  ELSE SelectSeq(s, LAMBDA e : ~e.isOptional) \o SelectSeq(s, LAMBDA e : e.isOptional)

\* a map that keeps the schema a title was first given
PutSchemaOnce(map, title, schema) ==
  [t \in DOMAIN map \cup {title} |->
     IF t \in DOMAIN map THEN map[t] ELSE schema]

\* map[title] = schema
PutSchema(map, title, schema) ==
  [t \in DOMAIN map \cup {title} |-> IF t = title THEN schema ELSE map[t]]

\* {...map, ...list.reduce(...)}: the list's entries written over the map in order
RECURSIVE MergeList(_, _, _)
MergeList(map, list, i) ==
  IF i > Len(list) THEN map
  ELSE MergeList(PutSchema(map, list[i].title, list[i].schema), list, i + 1)

-----------------------------------------------------------------------------
(* What one call creates and returns *)

EmptyMap == [t \in {} |-> Undefined]

\* the visited set of the call before, kept
KeptParsedNestedTypeSet == parsedNestedTypeSet

\* generateSchema's new Set<Type>() and its empty nestedTypeList
NewParsedNestedTypeSet == <<>>

NewNestedTypeList == <<>>

NoResult == [returned |-> FALSE, strict |-> FALSE, list |-> <<>>, map |-> EmptyMap]

\* generateSchema's last lines: the list or the map, by strictDeclarationOrder
Assemble(strict, sList, sMap, nested) ==
  LET list == IF Len(nested) > 0 THEN sList \o nested ELSE sList
      map == IF Len(nested) > 0 THEN MergeList(sMap, nested, 1) ELSE sMap
  IN [returned |-> TRUE, strict |-> strict,
      list |-> IF strict THEN list ELSE <<>>,
      map |-> IF strict THEN EmptyMap ELSE map]

getDeclarationTextBySymbol(D, sym) == IF sym.decl = 0 THEN "" ELSE D[sym.decl].print

NestedEntry(D, sym) ==
  [title |-> sym.name,
   schema |-> [tags |-> <<[name |-> "title", value |-> sym.name]>>,
               data |-> getDeclarationTextBySymbol(D, sym),
               isNestedType |-> TRUE]]

\* the declarations dumpNestedTypes is called with after recording type t
ChildDeclarations(T, D, t) ==
  IF t.flag \in {"union", "intersection"}
  THEN LET ds == [k \in 1..Len(t.subTypes) |-> getSymbolByType(T[t.subTypes[k]]).decl]
       IN SelectSeq(ds, LAMBDA d : d # 0)
  ELSE IF t.flag = "interface" THEN D[getSymbolByType(t).decl].props
  ELSE <<>>

\* whether the descendant is passed on to isTarget
IsCandidate(T, n) ==
  LET title == getSymbolByType(T[n.type]).name
  IN n.tn /\ title # Undefined /\ title \notin KEYWORDS_TO_SKIP

Frame(d) == [decl |-> d, i |-> 1, kids |-> <<>>]

-----------------------------------------------------------------------------
(* generate *)

\* generate, up to the first declaration: the project, the source file, the fresh state
Generate ==
  /\ pc = "idle"
  /\ callsLeft > 0
  /\ projectFiles' = (projectFiles \/ config.sourceFilesPaths)
  /\ IF projectFiles'
     THEN /\ pc' = "decl"
          /\ queue' = SortedDeclarations(decls, file)
          /\ schemaList' = <<>>
          /\ schemaMap' = EmptyMap
          /\ nestedTypeList' = NewNestedTypeList
          /\ parsedNestedTypeSet' = NewParsedNestedTypeSet
          /\ recorded' = <<>>
          /\ walks' = <<>>
          /\ UNCHANGED <<callsLeft, results>>
     ELSE /\ results' = Append(results, NoResult)
          /\ callsLeft' = callsLeft - 1
          /\ UNCHANGED <<pc, queue, schemaList, schemaMap, nestedTypeList,
                         parsedNestedTypeSet, recorded, walks>>
  /\ UNCHANGED <<inputs, dummyFile, cur, stack>>

\* the shape of a titled declaration: its members and what it returns
ShapeOf(T, D, d, tags) ==
  LET typeNodeKind == IF D[d].kind = "FunctionDeclaration" THEN "FunctionDeclaration"
                      ELSE IF D[d].kind = "TypeAliasDeclaration" THEN D[d].typeNodeKind
                      ELSE "null"
  IN IF typeNodeKind \in {"FunctionDeclaration", "FunctionType"}
     THEN [shape |-> "function", members |-> D[d].params, returns |-> D[d].returns]
     ELSE IF D[d].kind = "InterfaceDeclaration"
             /\ \E k \in 1..Len(tags) : tags[k].name = "notExtends"
     THEN [shape |-> "data", members |-> D[d].props, returns |-> Undefined]
     ELSE [shape |-> "data", members |-> T[D[d].type].props, returns |-> Undefined]

\* the forEach callback up to the schema's members: an untitled declaration is left out
NextDeclaration ==
  /\ pc = "decl"
  /\ queue # <<>>
  /\ LET d == Head(queue)
         tg == getDeclarationTags(decls[d])
         sh == ShapeOf(types, decls, d, tg.tags)
     IN IF tg.title = Undefined
        THEN UNCHANGED <<pc, cur>>
        ELSE /\ pc' = "prop"
             /\ cur' = [title |-> tg.title, tags |-> tg.tags, shape |-> sh.shape,
                        members |-> sh.members, data |-> <<>>, returns |-> sh.returns]
  /\ queue' = Tail(queue)
  /\ UNCHANGED <<inputs, callsLeft, projectFiles, dummyFile, stack, schemaList,
                 schemaMap, nestedTypeList, parsedNestedTypeSet, results, recorded, walks>>

\* whether getPropertySchema or getFunctionSchema resolves member m's type
Resolves(D, strictComment, shape, m) ==
  \/ shape = "function"
  \/ /\ extractFromPropertyText(D[m].text).ok
     /\ HasDescription(getSymbolTags(D[m], strictComment))

\* the fallback that takes the type of the defaultT entry and leaves its tags
DefaultTypeOnly(defaultT, name, isOptional) ==
  IF name \in DOMAIN defaultT
  THEN <<[name |-> name, isOptional |-> isOptional,
          type |-> defaultT[name].type, tags |-> <<>>]>>
  ELSE <<>>

\* getPropertySchema's last return: the defaultT entry of an undocumented property
DefaultEntry(defaultT, name, isOptional) ==
  IF name \in DOMAIN defaultT
  THEN <<[name |-> name, isOptional |-> isOptional,
          type |-> defaultT[name].type, tags |-> defaultT[name].tags]>>
  ELSE <<>>

\* a member that is not resolved: unparseable, or undocumented
SkipMember ==
  /\ pc = "prop"
  /\ cur.members # <<>>
  /\ LET m == Head(cur.members)
         extract == extractFromPropertyText(decls[m].text)
     IN /\ ~Resolves(decls, config.strictComment, cur.shape, m)
        /\ cur' = [cur EXCEPT
                     !.members = Tail(@),
                     !.data = IF extract.ok
                              THEN @ \o DefaultEntry(config.defaultT, decls[m].name,
                                                     extract.isOptional)
                              ELSE @]
  /\ UNCHANGED <<inputs, callsLeft, projectFiles, dummyFile, pc, queue, stack,
                 schemaList, schemaMap, nestedTypeList, parsedNestedTypeSet, results,
                 recorded, walks>>

\* a member that is resolved: the call of dumpNestedTypes on its declaration
StartDump ==
  /\ pc = "prop"
  /\ cur.members # <<>>
  /\ LET m == Head(cur.members)
         h == HasJSDocTitle(decls, m, parsedNestedTypeSet)
     IN /\ Resolves(decls, config.strictComment, cur.shape, m)
        /\ parsedNestedTypeSet' = h.set
        /\ stack' = IF h.hit THEN <<>> ELSE <<Frame(m)>>
  /\ pc' = "resolve"
  /\ UNCHANGED <<inputs, callsLeft, projectFiles, dummyFile, queue, cur, schemaList,
                 schemaMap, nestedTypeList, results, recorded, walks>>

\* forEachDescendant's callback on the next descendant, up to the recursion
Visit ==
  /\ pc = "resolve"
  /\ stack # <<>>
  /\ LET f == Head(stack)
     IN /\ f.kids = <<>>
        /\ f.i <= Len(decls[f.decl].desc)
        /\ LET n == decls[f.decl].desc[f.i]
               sym == getSymbolByType(types[n.type])
               r == IF IsCandidate(types, n)
                    THEN isTarget(types, decls, n.type, parsedNestedTypeSet)
                    ELSE [ok |-> FALSE, set |-> parsedNestedTypeSet]
           IN IF r.ok
              THEN /\ parsedNestedTypeSet' = SetAdd(r.set, n.type)
                   /\ nestedTypeList' = Append(nestedTypeList, NestedEntry(decls, sym))
                   /\ recorded' = Append(recorded, n.type)
                   /\ stack' = <<[f EXCEPT !.i = @ + 1,
                                           !.kids = ChildDeclarations(types, decls,
                                                                      types[n.type])]>>
                                \o Tail(stack)
              ELSE /\ parsedNestedTypeSet' = r.set
                   /\ stack' = <<[f EXCEPT !.i = @ + 1]>> \o Tail(stack)
                   /\ UNCHANGED <<nestedTypeList, recorded>>
  /\ UNCHANGED <<inputs, callsLeft, projectFiles, dummyFile, pc, queue, cur,
                 schemaList, schemaMap, results, walks>>

\* the recursive call of dumpNestedTypes on the next sub type or property
Recurse ==
  /\ pc = "resolve"
  /\ stack # <<>>
  /\ LET f == Head(stack)
     IN /\ f.kids # <<>>
        /\ LET c == Head(f.kids)
               h == HasJSDocTitle(decls, c, parsedNestedTypeSet)
               rest == <<[f EXCEPT !.kids = Tail(@)]>> \o Tail(stack)
           IN /\ parsedNestedTypeSet' = h.set
              /\ stack' = IF h.hit THEN rest ELSE <<Frame(c)>> \o rest
              /\ walks' = IF h.hit THEN walks ELSE Append(walks, c)
  /\ UNCHANGED <<inputs, callsLeft, projectFiles, dummyFile, pc, queue, cur,
                 schemaList, schemaMap, nestedTypeList, results, recorded>>

\* forEachDescendant is through: dumpNestedTypes returns
Return ==
  /\ pc = "resolve"
  /\ stack # <<>>
  /\ LET f == Head(stack)
     IN f.kids = <<>> /\ f.i > Len(decls[f.decl].desc)
  /\ stack' = Tail(stack)
  /\ UNCHANGED <<inputs, callsLeft, projectFiles, dummyFile, pc, queue, cur,
                 schemaList, schemaMap, nestedTypeList, parsedNestedTypeSet, results,
                 recorded, walks>>

\* para.getType().getText().replace(/import\([^)]+\)\./g, ''), an import prefix one token
StripImports(text) == SelectSeq(text, LAMBDA tok : tok # "import().")

\* a parameter's initializerText
InitializerText(d, tags) ==
  LET k == FirstIn([j \in 1..Len(tags) |-> tags[j].name], {"default", "defaultValue"}, 1)
  IN IF d.initializer # Undefined THEN d.initializer
     ELSE IF k # 0 THEN tags[k].value
     ELSE Undefined

\* the entry of a resolved member, its type text linked
MemberEntry(T, D, cfg, shape, m, list, set) ==
  LET tags == getSymbolTags(D[m], cfg.strictComment)
      extract == extractFromPropertyText(D[m].text)
  IN IF shape = "function"
     THEN [name |-> D[m].name,
           type |-> getDisplayTypeWithLink(T, D, cfg.linkFormatter,
                                           StripImports(D[m].typeText), list, set),
           isOptional |-> D[m].isOptional,
           tags |-> tags,
           initializerText |-> InitializerText(D[m], tags)]
     ELSE [name |-> D[m].name,
           type |-> getDisplayTypeWithLink(T, D, cfg.linkFormatter, extract.type,
                                           list, set),
           isOptional |-> extract.isOptional,
           tags |-> tags]

\* getDisplayTypeWithLink and the member's entry
Link ==
  /\ pc = "resolve"
  /\ stack = <<>>
  /\ LET m == Head(cur.members)
         e == MemberEntry(types, decls, config, cur.shape, m, nestedTypeList,
                          parsedNestedTypeSet)
     IN /\ cur' = [cur EXCEPT !.members = Tail(@), !.data = Append(@, e)]
        /\ dummyFile' = e.type
  /\ pc' = "prop"
  /\ UNCHANGED <<inputs, callsLeft, projectFiles, queue, stack, schemaList, schemaMap,
                 nestedTypeList, parsedNestedTypeSet, results, recorded, walks>>

SchemaOf(c, sorter) ==
  IF c.shape = "function"
  THEN [tags |-> c.tags, params |-> SortMembers(sorter, c.data), returns |-> c.returns]
  ELSE [tags |-> c.tags, data |-> SortMembers(sorter, c.data)]

\* the end of the forEach callback: the schema goes to the list and to the map
FinishDeclaration ==
  /\ pc = "prop"
  /\ cur.members = <<>>
  /\ LET schema == SchemaOf(cur, config.propertySorter)
     IN /\ schemaList' = Append(schemaList, [title |-> cur.title, schema |-> schema])
        /\ schemaMap' = PutSchema(schemaMap, cur.title, schema)
  /\ cur' = NoCur
  /\ pc' = "decl"
  /\ UNCHANGED <<inputs, callsLeft, projectFiles, dummyFile, queue, stack,
                 nestedTypeList, parsedNestedTypeSet, results, recorded, walks>>

\* generateSchema returns
Finish ==
  /\ pc = "decl"
  /\ queue = <<>>
  /\ results' = Append(results, Assemble(config.strictDeclarationOrder, schemaList,
                                          schemaMap, nestedTypeList))
  /\ callsLeft' = callsLeft - 1
  /\ pc' = "idle"
  /\ UNCHANGED <<inputs, projectFiles, dummyFile, queue, cur, stack, schemaList,
                 schemaMap, nestedTypeList, parsedNestedTypeSet, recorded, walks>>

Next ==
  \/ Generate
  \/ NextDeclaration
  \/ SkipMember
  \/ StartDump
  \/ Visit
  \/ Recurse
  \/ Return
  \/ Link
  \/ FinishDeclaration
  \/ Finish

-----------------------------------------------------------------------------
(* The analysed projects: what the declarations and types of a project look like *)

\* a declaration node with nothing set
Decl ==
  [kind |-> "null", jsDocable |-> TRUE, rawTags |-> <<>>, path |-> <<"src", "a.ts">>,
   type |-> 0, desc |-> <<>>, props |-> <<>>, line |-> 0, name |-> Undefined,
   text |-> <<>>, jsDocTags |-> <<>>, comment |-> Undefined, typeNodeKind |-> "null",
   params |-> <<>>, returns |-> Undefined, typeText |-> <<>>, isOptional |-> FALSE,
   initializer |-> Undefined, print |-> ""]

\* a type without symbol, such as string
Primitive ==
  [aliasSymbol |-> NoSymbol, symbol |-> NoSymbol, flag |-> "primitive",
   subTypes |-> <<>>, props |-> <<>>]

ExternalPath == <<"node_modules", "lib", "index.d.ts">>

Described == <<[name |-> "zh", value |-> "z"], [name |-> "en", value |-> "e"]>>

StyleDefault ==
  [t \in {"style"} |-> [type |-> <<"CSSProperties">>,
                        tags |-> <<[name |-> "zh", value |-> "style"]>>]]

\* the text of a property signature: name?: T; or name: T; or 'name': T;
PropertyText(form, name, typeName) ==
  IF form = "optional" THEN <<name, "?", ":", " ", typeName, ";">>
  ELSE IF form = "plain" THEN <<name, ":", "\n", typeName, ";">>
  ELSE <<"'", name, "'", ":", " ", typeName, ";">>

\* the declaration of a property of type ty, documented by tags
PropertySignature(name, ty, typeName, tags) ==
  [Decl EXCEPT !.kind = "PropertySignature", !.name = name, !.type = ty,
               !.desc = <<[tn |-> FALSE, type |-> ty], [tn |-> TRUE, type |-> ty]>>,
               !.text = PropertyText("optional", name, typeName),
               !.jsDocTags = tags,
               !.print = name \o "?: " \o typeName]

\* how many custom types the project of the graph family declares
NTypes == 3

TypeIds == 1..NTypes

Names == <<"A", "B", "C", "D", "E">>

\* what each custom type is: an interface with one property of type refs[1], an
\* alias of the union or intersection of refs[1] and refs[2] (0: string), an enum
Shapes ==
  {[flag |-> "interface", refs |-> <<r>>] : r \in 0..NTypes}
  \cup {[flag |-> "union", refs |-> <<a, b>>] : a \in 0..NTypes, b \in TypeIds}
  \cup {[flag |-> "intersection", refs |-> <<a, b>>] : a \in TypeIds, b \in TypeIds}
  \cup {[flag |-> "enum", refs |-> <<>>]}

\* the checker flattens unions and intersections: a member is no union or
\* intersection itself (nor the alias being declared), and is listed once
WellFormed(shapes) ==
  \A i \in TypeIds :
    shapes[i].flag \in {"union", "intersection"} =>
      /\ shapes[i].refs[1] < shapes[i].refs[2]
      /\ \A r \in Range(shapes[i].refs) :
           /\ r # i
           /\ IF r = 0 THEN TRUE ELSE shapes[r].flag = "interface"

\* what sets one type apart: a JSDoc title, a declaration in node_modules, both,
\* or the name of type 1 (another instantiation, or a declaration of another file)
Variations ==
  {[kind |-> "plain", t |-> 1, linkFormatter |-> "hash"]}
  \cup {[kind |-> k, t |-> t, linkFormatter |-> "hash"] :
          k \in {"external", "share"}, t \in TypeIds}
  \cup {[kind |-> k, t |-> t, linkFormatter |-> lf] :
          k \in {"titled", "titledExternal"}, t \in TypeIds, lf \in {"hash", "titled"}}

NameOf(v, i) == IF v.kind = "share" /\ v.t = i THEN Names[1] ELSE Names[i]

TitleTags(v, i) ==
  IF v.t = i /\ v.kind \in {"titled", "titledExternal"}
  THEN <<[name |-> "title", value |-> "My" \o Names[i]]>>
  ELSE <<>>

PathOf(v, i) ==
  IF v.t = i /\ v.kind \in {"external", "titledExternal"}
  THEN ExternalPath
  ELSE <<"src", "types.ts">>

TopDecl == 2 * NTypes + 1

TopType == NTypes + 1

\* the types of the graph family: 0 is string, 1..NTypes the custom types, then
\* the documented interface TopProps
GraphTypes(shapes, v) ==
  [i \in 0..TopType |->
     IF i = 0 THEN Primitive
     ELSE IF i = TopType
       THEN [Primitive EXCEPT !.symbol = [name |-> "TopProps", decl |-> TopDecl],
                              !.flag = "interface",
                              !.props = <<TopDecl + 1, TopDecl + 2, TopDecl + 3>>]
     ELSE IF shapes[i].flag = "interface"
       THEN [Primitive EXCEPT !.symbol = [name |-> NameOf(v, i), decl |-> i],
                              !.flag = "interface",
                              !.props = <<NTypes + i>>]
     ELSE IF shapes[i].flag = "enum"
       THEN [Primitive EXCEPT !.symbol = [name |-> NameOf(v, i), decl |-> i],
                              !.flag = "enum"]
     ELSE [Primitive EXCEPT !.aliasSymbol = [name |-> NameOf(v, i), decl |-> i],
                            !.flag = shapes[i].flag,
                            !.subTypes = shapes[i].refs]]

\* its declarations: i declares type i, NTypes + i is the property of interface i,
\* then TopProps and its properties p1: <type 1>, p2: <type 2> and style: string
GraphDecls(shapes, v) ==
  [d \in 1..(TopDecl + 3) |->
     IF d = TopDecl
       THEN [Decl EXCEPT !.kind = "InterfaceDeclaration", !.type = TopType, !.line = 1,
                         !.rawTags = <<[name |-> "title", value |-> "Top"]>>,
                         !.props = <<TopDecl + 1, TopDecl + 2, TopDecl + 3>>,
                         !.print = "interface TopProps"]
     ELSE IF d = TopDecl + 1 THEN PropertySignature("p1", 1, NameOf(v, 1), Described)
     ELSE IF d = TopDecl + 2 THEN PropertySignature("p2", 2, NameOf(v, 2), Described)
     ELSE IF d = TopDecl + 3 THEN PropertySignature("style", 0, "string", <<>>)
     ELSE IF d > NTypes
       THEN LET i == d - NTypes
                r == IF shapes[i].flag = "interface" THEN shapes[i].refs[1] ELSE 0
            IN PropertySignature("p", r, IF r = 0 THEN "string" ELSE NameOf(v, r), <<>>)
     ELSE LET sh == shapes[d]
              base == [Decl EXCEPT !.type = d, !.rawTags = TitleTags(v, d),
                                   !.path = PathOf(v, d)]
          IN IF sh.flag = "interface"
             THEN [base EXCEPT !.kind = "InterfaceDeclaration",
                               !.props = <<NTypes + d>>,
                               !.desc = <<[tn |-> FALSE, type |-> d],
                                          [tn |-> TRUE, type |-> sh.refs[1]]>>,
                               !.print = "interface " \o NameOf(v, d)]
             ELSE IF sh.flag = "enum"
             THEN [base EXCEPT !.kind = "EnumDeclaration",
                               !.print = "enum " \o NameOf(v, d)]
             ELSE [base EXCEPT !.kind = "TypeAliasDeclaration",
                               !.typeNodeKind = IF sh.flag = "union" THEN "UnionType"
                                                ELSE "IntersectionType",
                               !.desc = <<[tn |-> TRUE, type |-> d],
                                          [tn |-> TRUE, type |-> sh.refs[1]],
                                          [tn |-> TRUE, type |-> sh.refs[2]]>>,
                               !.print = "type " \o NameOf(v, d)]]

OneFile(d) == [interfaces |-> <<d>>, typeAliases |-> <<>>, functions |-> <<>>]

BaseConfig ==
  [sourceFilesPaths |-> TRUE, strictDeclarationOrder |-> TRUE, strictComment |-> FALSE,
   defaultT |-> StyleDefault, linkFormatter |-> "hash", propertySorter |-> "none"]

\* the state before the first call
Start ==
  /\ projectFiles = FALSE
  /\ dummyFile = <<>>
  /\ pc = "idle"
  /\ queue = <<>>
  /\ cur = NoCur
  /\ stack = <<>>
  /\ schemaList = <<>>
  /\ schemaMap = EmptyMap
  /\ nestedTypeList = <<>>
  /\ parsedNestedTypeSet = <<>>
  /\ results = <<>>
  /\ recorded = <<>>
  /\ walks = <<>>

\* one call on a project of the graph family
InitGraph ==
  /\ \E shapes \in [TypeIds -> Shapes], v \in Variations :
       /\ WellFormed(shapes)
       /\ types = GraphTypes(shapes, v)
       /\ decls = GraphDecls(shapes, v)
       /\ config = [BaseConfig EXCEPT !.linkFormatter = v.linkFormatter]
  /\ file = OneFile(TopDecl)
  /\ callsLeft = 1
  /\ Start

Spec == InitGraph /\ [][Next]_vars

-----------------------------------------------------------------------------
(* The declarations family: MaxDecls top-level declarations of one file *)

MaxDecls == 3

DeclIds == 1..MaxDecls

Digits == <<"1", "2", "3", "4", "5">>

\* the JSDoc title tags a declaration may carry
TitleChoices ==
  {<<>>,
   <<[name |-> "title", value |-> "X"]>>,
   <<[name |-> "title", value |-> "X"], [name |-> "title", value |-> "Y"]>>}

\* what the family varies besides kinds, lines and titles: members of type string,
\* members of the custom type X, interfaces tagged notExtends, aliases of function types
DeclVariants == {"plain", "nestedX", "notExtends", "functionType"}

\* declaration k is decls[DeclOf(k)], its own member the next, an inherited one after it
DeclOf(k) == 3 * k

\* the k-th declaration of the file text is on the line of the one before it, or the next
RECURSIVE LineOf(_, _)
LineOf(same, k) ==
  IF k = 1 THEN 1 ELSE LineOf(same, k - 1) + (IF same[k] THEN 0 ELSE 1)

\* getInterfaces, getTypeAliases, getFunctions: the declarations of a kind, in text order
OfKind(kinds, kind) ==
  LET all == [k \in DeclIds |-> k]
      mine == SelectSeq(all, LAMBDA k : kinds[k] = kind)
  IN [j \in 1..Len(mine) |-> DeclOf(mine[j])]

DeclsFile(kinds) ==
  [interfaces |-> OfKind(kinds, "InterfaceDeclaration"),
   typeAliases |-> OfKind(kinds, "TypeAliasDeclaration"),
   functions |-> OfKind(kinds, "FunctionDeclaration")]

\* type 0 is string, type 1 the interface X { p: string }, type 1 + k declaration k's
DeclsTypes(kinds) ==
  [i \in 0..(MaxDecls + 1) |->
     IF i = 0 THEN Primitive
     ELSE IF i = 1
       THEN [Primitive EXCEPT !.symbol = [name |-> "X", decl |-> 1],
                              !.flag = "interface", !.props = <<2>>]
     ELSE LET k == i - 1
          IN IF kinds[k] = "InterfaceDeclaration"
             THEN [Primitive EXCEPT !.symbol = [name |-> "I" \o Digits[k],
                                                decl |-> DeclOf(k)],
                                    !.flag = "interface",
                                    !.props = <<DeclOf(k) + 1, DeclOf(k) + 2>>]
             ELSE IF kinds[k] = "TypeAliasDeclaration"
             THEN [Primitive EXCEPT !.aliasSymbol = [name |-> "O" \o Digits[k],
                                                     decl |-> DeclOf(k)],
                                    !.flag = "object",
                                    !.props = <<DeclOf(k) + 1>>]
             ELSE [Primitive EXCEPT !.symbol = [name |-> "f" \o Digits[k],
                                                decl |-> DeclOf(k)],
                                    !.flag = "object"]]

DeclsDecls(kinds, same, titles, variant) ==
  LET ref == IF variant = "nestedX" THEN 1 ELSE 0
      refName == IF ref = 1 THEN "X" ELSE "string"
  IN [d \in 1..(DeclOf(MaxDecls) + 2) |->
        IF d = 1
          THEN [Decl EXCEPT !.kind = "InterfaceDeclaration", !.type = 1, !.props = <<2>>,
                            !.desc = <<[tn |-> FALSE, type |-> 1],
                                       [tn |-> TRUE, type |-> 0]>>,
                            !.print = "interface X"]
        ELSE IF d = 2 THEN PropertySignature("p", 0, "string", <<>>)
        ELSE LET k == d \div 3
                 role == d % 3
             IN IF role = 2 THEN PropertySignature("style", 0, "string", <<>>)
                ELSE IF role = 1
                        /\ (kinds[k] = "FunctionDeclaration"
                            \/ (kinds[k] = "TypeAliasDeclaration"
                                /\ variant = "functionType"))
                  THEN [Decl EXCEPT !.kind = "Parameter", !.jsDocable = FALSE,
                                    !.name = "a" \o Digits[k], !.type = ref,
                                    !.desc = <<[tn |-> FALSE, type |-> ref],
                                               [tn |-> TRUE, type |-> ref]>>,
                                    !.typeText = <<"import().", refName>>,
                                    !.jsDocTags = <<[name |-> "default", value |-> "0"]>>,
                                    !.print = "a: " \o refName]
                ELSE IF role = 1
                  THEN PropertySignature("q" \o Digits[k], ref, refName, Described)
                ELSE [Decl EXCEPT
                        !.kind = kinds[k],
                        !.type = k + 1,
                        !.line = LineOf(same, k),
                        !.rawTags = titles[k] \o <<[name |-> "since", value |-> Digits[k]]>>
                                    \o (IF variant = "notExtends"
                                        THEN <<[name |-> "notExtends", value |-> ""]>>
                                        ELSE <<>>),
                        !.props = IF kinds[k] = "InterfaceDeclaration"
                                  THEN <<d + 1>> ELSE <<>>,
                        !.typeNodeKind = IF kinds[k] # "TypeAliasDeclaration" THEN "null"
                                         ELSE IF variant = "functionType" THEN "FunctionType"
                                         ELSE "TypeLiteral",
                        !.params = <<d + 1>>,
                        !.returns = "void",
                        !.print = "declaration " \o Digits[k]]]

\* one call on a file of the declarations family
InitDecls ==
  /\ \E kinds \in [DeclIds -> {"InterfaceDeclaration", "TypeAliasDeclaration",
                               "FunctionDeclaration"}],
        same \in [DeclIds -> BOOLEAN],
        titles \in [DeclIds -> TitleChoices],
        variant \in DeclVariants,
        strict \in BOOLEAN :
       /\ ~same[1]
       /\ types = DeclsTypes(kinds)
       /\ decls = DeclsDecls(kinds, same, titles, variant)
       /\ file = DeclsFile(kinds)
       /\ config = [BaseConfig EXCEPT !.strictDeclarationOrder = strict]
  /\ callsLeft = 1
  /\ Start

SpecDecls == InitDecls /\ [][Next]_vars

-----------------------------------------------------------------------------
(* The properties family: one documented declaration with MaxProps properties *)

MaxProps == 2

PropIds == 1..MaxProps

PropNames == <<"style", "foo", "bar">>

PropForms == {"optional", "plain", "quoted"}

\* the JSDoc tags a property may carry
TagChoices ==
  {<<>>,
   <<[name |-> "zh", value |-> "z"]>>,
   <<[name |-> "version", value |-> "2"]>>,
   <<[name |-> "defaultValue", value |-> "1"], [name |-> "en", value |-> "e"]>>}

\* the caller's defaultTypeMap
DefaultMaps ==
  {EmptyMap, StyleDefault,
   [t \in {"style", "foo"} |-> [type |-> <<"Def", t>>,
                                tags |-> <<[name |-> "en", value |-> t]>>]]}

\* type 0 is string, type 1 the interface N { p: string }, type 2 the declaration's
PropsTypes(kind) ==
  [i \in 0..2 |->
     IF i = 0 THEN Primitive
     ELSE IF i = 1
       THEN [Primitive EXCEPT !.symbol = [name |-> "N", decl |-> 1],
                              !.flag = "interface", !.props = <<2>>]
     ELSE IF kind = "InterfaceDeclaration"
       THEN [Primitive EXCEPT !.symbol = [name |-> "P", decl |-> 3],
                              !.flag = "interface",
                              !.props = [j \in PropIds |-> 3 + j]]
     ELSE [Primitive EXCEPT !.aliasSymbol = [name |-> "P", decl |-> 3],
                            !.flag = "object",
                            !.props = [j \in PropIds |-> 3 + j]]]

\* declaration 3 is the documented one, 3 + j its j-th property, each of type N
PropsDecls(kind, forms, tags, comments) ==
  [d \in 1..(3 + MaxProps) |->
     IF d = 1
       THEN [Decl EXCEPT !.kind = "InterfaceDeclaration", !.type = 1, !.props = <<2>>,
                         !.desc = <<[tn |-> FALSE, type |-> 1],
                                    [tn |-> TRUE, type |-> 0]>>,
                         !.print = "interface N"]
     ELSE IF d = 2 THEN PropertySignature("p", 0, "string", <<>>)
     ELSE IF d = 3
       THEN [Decl EXCEPT !.kind = kind, !.type = 2, !.line = 1,
                         !.rawTags = <<[name |-> "title", value |-> "P"]>>,
                         !.props = [j \in PropIds |-> 3 + j],
                         !.typeNodeKind = IF kind = "TypeAliasDeclaration"
                                          THEN "TypeLiteral" ELSE "null",
                         !.print = "declaration P"]
     ELSE LET j == d - 3
          IN [PropertySignature(PropNames[j], 1, "N", tags[j]) EXCEPT
                !.text = PropertyText(forms[j], PropNames[j], "N"),
                !.comment = comments[j]]]

\* one call on a declaration of the properties family
InitProps ==
  /\ \E kind \in {"InterfaceDeclaration", "TypeAliasDeclaration"},
        forms \in [PropIds -> PropForms],
        tags \in [PropIds -> TagChoices],
        comments \in [PropIds -> {Undefined, "text"}],
        defaultT \in DefaultMaps,
        strictComment \in BOOLEAN :
       /\ types = PropsTypes(kind)
       /\ decls = PropsDecls(kind, forms, tags, comments)
       /\ file = IF kind = "InterfaceDeclaration" THEN OneFile(3)
                 ELSE [interfaces |-> <<>>, typeAliases |-> <<3>>, functions |-> <<>>]
       /\ config = [BaseConfig EXCEPT !.defaultT = defaultT,
                                      !.strictComment = strictComment]
  /\ callsLeft = 1
  /\ Start

SpecProps == InitProps /\ [][Next]_vars

-----------------------------------------------------------------------------
(* The repeated call: generate called MaxCalls times on one project *)

MaxCalls == 2

\* the graph family's projects of interfaces and enums, each called MaxCalls times,
\* also without sourceFilesPaths, when the entry file is not in the project
InitTwice ==
  /\ \E shapes \in [TypeIds -> {sh \in Shapes : sh.flag \in {"interface", "enum"}}],
        v \in Variations,
        strict \in BOOLEAN,
        paths \in BOOLEAN :
       /\ types = GraphTypes(shapes, v)
       /\ decls = GraphDecls(shapes, v)
       /\ config = [BaseConfig EXCEPT !.linkFormatter = v.linkFormatter,
                                      !.strictDeclarationOrder = strict,
                                      !.sourceFilesPaths = paths]
  /\ file = OneFile(TopDecl)
  /\ callsLeft = MaxCalls
  /\ Start

SpecTwice == InitTwice /\ [][Next]_vars

-----------------------------------------------------------------------------
(* Properties of the nested type resolver *)

Done == pc = "idle" /\ callsLeft = 0

NoDuplicates(s) == \A i, j \in 1..Len(s) : i < j => s[i] # s[j]

SymbolName(ty) == getSymbolByType(types[ty]).name

DeclarationOf(ty) == getSymbolByType(types[ty]).decl

\* interface a has a property of type b
RefersTo(a, b) ==
  /\ types[a].flag = "interface"
  /\ \E k \in 1..Len(types[a].props) : decls[types[a].props[k]].type = b

Max(S) == CHOOSE x \in S : \A y \in S : y <= x

\* the sizes of the project that bound the work of a call
MaxDesc == Max({Len(decls[d].desc) : d \in DOMAIN decls})

MaxKids == Max({Len(ChildDeclarations(types, decls, types[t])) : t \in DOMAIN types})

MaxMembers ==
  Max({Len(types[t].props) : t \in DOMAIN types}
      \cup {Len(decls[d].props) : d \in DOMAIN decls}
      \cup {Len(decls[d].params) : d \in DOMAIN decls})

\* the steps one walk of declaration d takes at most by itself
WalkCost(d) == Len(decls[d].desc) + 1

RECURSIVE KidsWork(_)
KidsWork(kids) == IF kids = <<>> THEN 0 ELSE 1 + WalkCost(Head(kids)) + KidsWork(Tail(kids))

FrameWork(f) == (Len(decls[f.decl].desc) + 1 - f.i) + 1 + KidsWork(f.kids)

RECURSIVE StackWork(_)
StackWork(s) == IF s = <<>> THEN 0 ELSE FrameWork(Head(s)) + StackWork(Tail(s))

\* what recording one more type may add to the stack's work
RecordCost == MaxKids * (2 + MaxDesc) + 1

MemberCost == 3 + MaxDesc

DeclCost == 2 + MaxMembers * MemberCost

Unvisited == Cardinality(DOMAIN types \ Range(parsedNestedTypeSet))

\* the steps the current call has left at most
CallRank ==
  Unvisited * RecordCost
  + StackWork(stack)
  + (IF pc = "resolve" THEN 1 + (Len(cur.members) - 1) * MemberCost
     ELSE Len(cur.members) * MemberCost)
  + (IF pc \in {"prop", "resolve"} THEN 1 ELSE 0)
  + Len(queue) * DeclCost + 1

CallCost ==
  Cardinality(DOMAIN types) * RecordCost
  + Len(SortedDeclarations(decls, file)) * DeclCost + 2

\* a variant of the calls the caller makes: the steps left at most
Rank ==
  IF pc = "idle" THEN callsLeft * CallCost
  ELSE (callsLeft - 1) * CallCost + CallRank

\* C1: whatever the type graph, cycles included, a call of generate terminates
\* (every step lowers the variant Rank, a natural number), and no type is
\* recorded twice in the nested type output
C1_CyclicGraphsTerminate ==
  [][Rank' < Rank]_vars /\ [](Rank \in Nat /\ NoDuplicates(recorded))

\* two interfaces that refer to each other, both recorded by the finished call
C1_Witness ==
  /\ Done
  /\ \E a, b \in TypeIds :
       a # b /\ RefersTo(a, b) /\ RefersTo(b, a) /\ {a, b} \subseteq Range(recorded)

IsExternal(ty) == DeclarationOf(ty) # 0 /\ InNodeModules(decls[DeclarationOf(ty)].path)

IsTitled(ty) ==
  DeclarationOf(ty) # 0 /\ getDeclarationTags(decls[DeclarationOf(ty)]).title # Undefined

\* the titles a linkFormatter may be handed: none, or a declaration's
JsDocTitles == {Undefined} \cup {getDeclarationTags(decls[d]).title : d \in DOMAIN decls}

\* tok is the link the linkifier puts for the identifier name
IsLinkTo(tok, name) ==
  \E t \in JsDocTitles :
    LET link == linkFormatter(config.linkFormatter, name, t, <<>>)
    IN link # Undefined /\ tok = "[" \o name \o "](" \o link \o ")"

\* the type texts rendered so far for the declaration being built, and the last one
RenderedTexts == {cur.data[k].type : k \in 1..Len(cur.data)} \cup {dummyFile}

\* C6: a type declared under node_modules is never a nested type entry, and no
\* rendered type text holds a link for its name
C6_ExternalTypesAreLeaves ==
  \A ty \in DOMAIN types :
    IsExternal(ty) =>
      /\ ty \notin Range(recorded)
      /\ \A text \in RenderedTexts :
           \A k \in 1..Len(text) : ~IsLinkTo(text[k], SymbolName(ty))

\* C8: no two entries of the nested type accumulator have the same title
C8_TitlesDeduplicated ==
  \A i, j \in 1..Len(nestedTypeList) :
    i < j => nestedTypeList[i].title # nestedTypeList[j].title

\* a resolvable custom type, but for the visited set
Resolvable(ty) ==
  /\ SymbolName(ty) # Undefined
  /\ SymbolName(ty) \notin KEYWORDS_TO_SKIP
  /\ ~IsExternal(ty)
  /\ ~IsTitled(ty)
  /\ IsKindOfTarget(decls, types[ty])

\* C9: while the declaration of a resolvable member of a union or intersection is
\* walked for its descendants, the member itself has been recorded
C9_MemberRecordedBeforeDescendants ==
  \A k \in 1..Len(stack) :
    \A u \in Range(recorded), m \in DOMAIN types :
      /\ types[u].flag \in {"union", "intersection"}
      /\ m \in Range(types[u].subTypes)
      /\ Resolvable(m)
      /\ DeclarationOf(m) = stack[k].decl
      => m \in Range(recorded)

\* C10: in one call no declaration is walked twice by the recursion
C10_WalkedAtMostOnce == NoDuplicates(walks)

-----------------------------------------------------------------------------
(* Properties of the assembler and of the tag parser *)

TopLevel == Range(file.interfaces \o file.typeAliases \o file.functions)

TitleOf(d) == getDeclarationTags(decls[d]).title

TitledDeclarations == {d \in TopLevel : TitleOf(d) # Undefined}

\* the place of d in [...interfaces, ...typeAliases, ...functions]
EncounterIndex(d) ==
  LET all == file.interfaces \o file.typeAliases \o file.functions
  IN CHOOSE i \in 1..Len(all) : all[i] = d

\* a is processed before b: on an earlier line, or on the same and met first
Before(a, b) ==
  \/ decls[a].line < decls[b].line
  \/ decls[a].line = decls[b].line /\ EncounterIndex(a) < EncounterIndex(b)

\* the declaration an entry was built from: each has its own tags
IsEntryOf(e, d) == e.title = TitleOf(d) /\ e.schema.tags = decls[d].rawTags

\* C2: with strictDeclarationOrder the list holds the entries of the titled
\* declarations by start line, equal lines in encounter order, and after them
\* the nested type entries in the order of their discovery
C2_StrictOrder ==
  \A r \in Range(results) :
    r.returned /\ r.strict =>
      LET n == Cardinality(TitledDeclarations)
      IN /\ Len(r.list) = n + Len(recorded)
         /\ \A d \in TitledDeclarations : \E i \in 1..n : IsEntryOf(r.list[i], d)
         /\ \A i, j \in 1..n, a, b \in TitledDeclarations :
              i < j /\ IsEntryOf(r.list[i], a) /\ IsEntryOf(r.list[j], b) => Before(a, b)
         /\ \A i \in 1..Len(recorded) :
              /\ r.list[n + i].title = SymbolName(recorded[i])
              /\ "isNestedType" \in DOMAIN r.list[n + i].schema

\* three titled declarations met in another order than their lines', two of
\* them on one line, and a nested type, in a finished strict call
C2_Witness ==
  /\ Done
  /\ results # <<>> /\ results[1].returned /\ results[1].strict
  /\ Cardinality(TitledDeclarations) = 3
  /\ recorded # <<>>
  /\ \E a, b \in TitledDeclarations :
       EncounterIndex(a) < EncounterIndex(b) /\ decls[b].line < decls[a].line
  /\ \E a, b \in TitledDeclarations : a # b /\ decls[a].line = decls[b].line

\* the declaration with title t that is processed last
LastTitled(t) ==
  CHOOSE d \in TitledDeclarations :
    TitleOf(d) = t /\ \A o \in TitledDeclarations : TitleOf(o) = t /\ o # d => Before(o, d)

SharedTitles ==
  {t \in {TitleOf(d) : d \in TitledDeclarations} :
     \E a, b \in TitledDeclarations : a # b /\ TitleOf(a) = t /\ TitleOf(b) = t}

\* C3 as stated: in map mode a title shared by two declarations has one entry,
\* the schema of the declaration processed last
C3_LaterDeclarationWins ==
  \A r \in Range(results) :
    r.returned /\ ~r.strict =>
      \A t \in SharedTitles :
        t \in DOMAIN r.map /\ r.map[t].tags = decls[LastTitled(t)].rawTags

\* C3 amended: the entry is the schema of the declaration processed last, unless
\* a nested type has the title for its name: then it is the nested type's schema
C3_LastWriteWins ==
  \A r \in Range(results) :
    r.returned /\ ~r.strict =>
      \A t \in SharedTitles :
        /\ t \in DOMAIN r.map
        /\ IF \E k \in 1..Len(recorded) : SymbolName(recorded[k]) = t
           THEN /\ "isNestedType" \in DOMAIN r.map[t]
                /\ r.map[t].tags = <<[name |-> "title", value |-> t]>>
           ELSE r.map[t].tags = decls[LastTitled(t)].rawTags

\* two declarations with one title in a finished map call, no nested type of that name
C3_Witness ==
  /\ Done
  /\ results # <<>> /\ results[1].returned /\ ~results[1].strict
  /\ \E t \in SharedTitles : \A k \in 1..Len(recorded) : SymbolName(recorded[k]) # t

\* the value of the first tag named title, Undefined without one
FirstTitle(tags) ==
  LET k == FirstIn([j \in 1..Len(tags) |-> tags[j].name], {"title"}, 1)
  IN IF k = 0 THEN Undefined ELSE tags[k].value

\* C7: the title a declaration is kept and keyed with is the value of the first
\* title tag of its documentation comment
C7_FirstTitleWins ==
  /\ pc \in {"prop", "resolve"} => cur.title = FirstTitle(cur.tags)
  /\ \A k \in 1..Len(schemaList) :
       schemaList[k].title = FirstTitle(schemaList[k].schema.tags)

-----------------------------------------------------------------------------
(* Properties of the property schemas and of repeated calls *)

\* the properties of the declaration of the properties family
Properties == Range(types[2].props)

Undocumented(m) == ~HasDescription(getSymbolTags(decls[m], config.strictComment))

Parseable(m) == extractFromPropertyText(decls[m].text).ok

\* the entries of the declaration's schema in a strict result
DataOf(r) == r.list[1].schema.data

EntriesNamed(r, name) == {k \in 1..Len(DataOf(r)) : DataOf(r)[k].name = name}

\* the property is in the output once, with the type and tags of its defaultT entry
HasDefaultEntry(r, m) ==
  /\ Cardinality(EntriesNamed(r, decls[m].name)) = 1
  /\ \A k \in EntriesNamed(r, decls[m].name) :
       /\ DataOf(r)[k].type = config.defaultT[decls[m].name].type
       /\ DataOf(r)[k].tags = config.defaultT[decls[m].name].tags

\* nothing was resolved or linked in the call
NothingResolved == recorded = <<>> /\ parsedNestedTypeSet = <<>> /\ dummyFile = <<>>

\* C4 as stated: a property without description tag is in the output with its
\* defaultT entry's type and tags, nothing resolved for it, or is absent
C4_UndocumentedProperties ==
  \A r \in Range(results) :
    r.returned =>
      /\ \A m \in Properties :
           Undocumented(m) =>
             IF decls[m].name \in DOMAIN config.defaultT
             THEN HasDefaultEntry(r, m)
             ELSE EntriesNamed(r, decls[m].name) = {}
      /\ (\A m \in Properties : Undocumented(m)) => NothingResolved

\* C4 amended: so it is for a property whose text matches propertyRegex; one
\* whose text does not match is absent, with or without a defaultT entry
C4_UndocumentedParseableProperties ==
  \A r \in Range(results) :
    r.returned =>
      /\ \A m \in Properties :
           Undocumented(m) =>
             IF Parseable(m) /\ decls[m].name \in DOMAIN config.defaultT
             THEN HasDefaultEntry(r, m)
             ELSE EntriesNamed(r, decls[m].name) = {}
      /\ (\A m \in Properties : Undocumented(m)) => NothingResolved

\* a finished call on two undocumented properties that match: style with a
\* defaultT entry, foo without
C4_Witness ==
  /\ Done
  /\ results # <<>> /\ results[1].returned
  /\ \A m \in Properties : Undocumented(m) /\ Parseable(m)
  /\ DOMAIN config.defaultT = {"style"}
  /\ Len(DataOf(results[1])) = 1

\* C5: the calls of generate on one entry file with one configuration return
\* the same
C5_SameOutput == \A i, j \in 1..Len(results) : results[i] = results[j]

\* two finished calls that returned nested types and linked text
C5_Witness ==
  /\ Len(results) >= 2
  /\ results[2].returned
  /\ pc = "idle"
  /\ Len(recorded) >= 2
  /\ \E k \in 1..Len(dummyFile) : IsLinkTo(dummyFile[k], SymbolName(recorded[1]))

====
